---------------------------- MODULE Spec2Model ----------------------------
(***************************************************************************)
(* Balance tracker (pythontracker_18.py): an ingestion endpoint that       *)
(* appends one CSV row per report to a per-identifier log, and a report    *)
(* endpoint that reads every log, derives rates and hourly growth, and     *)
(* renders the latest state per identifier.                                *)
(*                                                                         *)
(* Files are sequences of lines, a line is the tuple of its comma          *)
(* separated cells (texts).  Dates are seconds since 1970-01-01 00:00:00;  *)
(* floating point values are exact fractions <<n, d>> with d > 0, and      *)
(* <<0, 0>> (NaN), <<1, 0>> (inf), <<-1, 0>> (-inf).                       *)
(***************************************************************************)
EXTENDS Integers, Sequences, FiniteSets, TLC

VARIABLES
  dir,               \* state of CSV_DIRECTORY: "present", "missing", "unreadable"
  fs,                \* the files of CSV_DIRECTORY: file name -> sequence of lines
  history,           \* the complete reports sent to update_balance, in call order
  last_call,         \* the latest ingestion call: was its body complete, the files before it
  response,          \* the response of the latest request
  sorted_df,         \* index: combined_df after sort_values('Date')
  combined_df,       \* index: the table compute_metrics returned
  hourly_growth_df,  \* index: the hourly rollup compute_metrics returned
  pc,                \* per ingestion worker: the line update_balance is at
  req,               \* per ingestion worker: the body it is handling
  rpc,               \* the line the concurrent report request is at
  listing,           \* concurrent report: files of os.listdir not yet read
  data_frames        \* concurrent report: the frames read so far

vars == <<dir, fs, history, last_call, response, sorted_df, combined_df, hourly_growth_df,
          pc, req, rpc, listing, data_frames>>

-----------------------------------------------------------------------------
(* Bounds and input domains *)

MaxCalls == 3        \* ingestion calls of a sequential run
MaxConcCalls == 3    \* ingestion calls started in a concurrent run
MaxRows == 4         \* rows of a table given to compute_metrics

Peers == {"a", "b"}
PeerOrder == <<"a", "b">>            \* the sort order of the identifiers
Times == {0, 600, 3600, 7800}        \* seconds after midnight
Balances == {10, 15}
Hostnames == {"h1"}
ConcTimes == {0, 600}
ConcBalances == {10}
Workers == {1, 2}
OtherFile == "notes.txt"             \* a file of the directory that is no log

Fields == {"peer_id", "balance", "timestamp", "hostname"}

-----------------------------------------------------------------------------
(* Texts: what the f-strings write and what pandas parses back *)

Digit == <<"0", "1", "2", "3", "4", "5", "6", "7", "8", "9">>

RECURSIVE NumText(_)
NumText(n) == IF n < 10 THEN Digit[n + 1]
              ELSE NumText(n \div 10) \o Digit[(n % 10) + 1]

TwoDigits(n) == Digit[(n \div 10) + 1] \o Digit[(n % 10) + 1]

\* the timestamp text of a moment s seconds into 1970-01-01
DateText(s) == "1970-01-01 " \o TwoDigits(s \div 3600) \o ":"
               \o TwoDigits((s % 3600) \div 60) \o ":" \o TwoDigits(s % 60)

Timestamps == {DateText(s) : s \in Times}

\* pd.to_datetime on one cell
to_datetime(text) == CHOOSE s \in Times : DateText(s) = text

\* read_csv's numeric inference followed by astype(float), on one cell
ParseBalance(text) == CHOOSE b \in Balances : NumText(b) = text

\* a request body: a JSON object holding the fields of S
Body(S, p, b, t, h) ==
  [k \in S |-> CASE k = "peer_id" -> p
                 [] k = "balance" -> b
                 [] k = "timestamp" -> t
                 [] OTHER -> h]

-----------------------------------------------------------------------------
(* The file system *)

HEADER == <<"Date", "Peer ID", "Balance", "Hostname">>

log_file(peer_id) == "node_balance_" \o peer_id \o ".csv"

\* f'{timestamp},{peer_id},{balance},{hostname}\n'
RowLine(timestamp, peer_id, balance, hostname) ==
  <<timestamp, peer_id, NumText(balance), hostname>>

\* bytes of a line: its cells, the commas between them, the newline
RECURSIVE CellBytes(_)
CellBytes(line) == IF line = <<>> THEN 0
                   ELSE Len(Head(line)) + 1 + CellBytes(Tail(line))
LineBytes(line) == IF line = <<>> THEN 1 ELSE CellBytes(line)

path_exists(files, f) == f \in DOMAIN files

\* open(f, 'w'): creates the file, or truncates it
OpenW(files, f) ==
  [x \in DOMAIN files \cup {f} |-> IF x = f THEN <<>> ELSE files[x]]

\* the lines left of `content` once its first n bytes are overwritten; a line
\* cut in the middle is left as a line without cells
RECURSIVE Overwritten(_, _)
Overwritten(content, n) ==
  IF n <= 0 \/ content = <<>> THEN content
  ELSE IF LineBytes(Head(content)) <= n
       THEN Overwritten(Tail(content), n - LineBytes(Head(content)))
       ELSE <<<<>>>> \o Tail(content)

\* a write of one line at offset 0, by the handle open(f, 'w') returned
WriteAtStart(files, f, line) ==
  [files EXCEPT ![f] = <<line>> \o Overwritten(files[f], LineBytes(line))]

\* open(f, 'a') and a write of one line: appended at the end of the file
AppendLine(files, f, line) ==
  [x \in DOMAIN files \cup {f} |->
     IF x = f THEN (IF f \in DOMAIN files THEN files[f] ELSE <<>>) \o <<line>>
     ELSE files[x]]

-----------------------------------------------------------------------------
(* Responses *)

Resp(route, status, body) ==
  [route |-> route, status |-> status, body |-> body, table_data |-> <<>>,
   balance_graph_html |-> "", quil_minute_graph_html |-> ""]

NoResponse == Resp("", 0, "")

-----------------------------------------------------------------------------
(* update_balance *)

\* line 53 with the presence test of hostname left out
valid_data_no_hostname(data) ==
  /\ DOMAIN data # {}
  /\ "peer_id" \in DOMAIN data
  /\ "balance" \in DOMAIN data
  /\ "timestamp" \in DOMAIN data

\* line 53: the body is usable
valid_data(data) ==
  /\ DOMAIN data # {}
  /\ "peer_id" \in DOMAIN data
  /\ "balance" \in DOMAIN data
  /\ "timestamp" \in DOMAIN data
  /\ "hostname" \in DOMAIN data

\* lines 63-65 without the test of line 63: the header written on every call
WithHeader_unconditional(files, f) ==
  WriteAtStart(OpenW(files, f), f, HEADER)

\* lines 63-65: the header, written when the log does not exist
WithHeader(files, f) ==
  IF path_exists(files, f) THEN files
  ELSE WriteAtStart(OpenW(files, f), f, HEADER)

\* lines 61-68: the files after the report is logged
Logged(files, data) ==
  LET f == log_file(data["peer_id"])
  IN  AppendLine(WithHeader(files, f), f,
                 RowLine(data["timestamp"], data["peer_id"],
                         data["balance"], data["hostname"]))

\* the whole handler, run without interruption
update_balance(data) ==
  IF ~valid_data(data)
  THEN /\ response' = Resp("/update_balance", 400, "Invalid data")
       /\ UNCHANGED fs
  ELSE IF ~(Fields \subseteq DOMAIN data) \/ dir # "present"
  THEN \* data[...] (lines 56-59) or open() raises, caught at line 72
       /\ response' = Resp("/update_balance", 500, "Internal Server Error")
       /\ UNCHANGED fs
  ELSE /\ fs' = Logged(fs, data)
       /\ response' = Resp("/update_balance", 200, "Balance updated")

-----------------------------------------------------------------------------
(* Sequential ingestion *)

NoFiles == [x \in {} |-> <<>>]
OnlyOtherFile == [x \in {OtherFile} |-> <<>>]

ConcIdle ==
  /\ pc = [w \in Workers |-> "idle"]
  /\ req = [w \in Workers |-> Body({}, "a", 10, DateText(0), "h1")]
  /\ rpc = "idle"
  /\ listing = {}
  /\ data_frames = <<>>

NoReport ==
  /\ sorted_df = <<>>
  /\ combined_df = <<>>
  /\ hourly_growth_df = <<>>

NoCall == [complete |-> TRUE, before |-> NoFiles]

InitDir ==
  /\ dir \in {"present", "missing", "unreadable"}
  /\ fs \in IF dir = "present" THEN {NoFiles, OnlyOtherFile} ELSE {NoFiles}

InitIngest ==
  /\ InitDir
  /\ history = <<>>
  /\ last_call = NoCall
  /\ response = NoResponse
  /\ NoReport
  /\ ConcIdle

Ingest ==
  /\ Len(history) < MaxCalls
  /\ \E S \in SUBSET Fields, p \in Peers, b \in Balances,
        t \in Timestamps, h \in Hostnames :
       LET data == Body(S, p, b, t, h)
       IN  /\ update_balance(data)
           /\ history' = IF S = Fields THEN Append(history, data)
                         ELSE history
           /\ last_call' = [complete |-> S = Fields, before |-> fs]
  /\ UNCHANGED <<dir, sorted_df, combined_df, hourly_growth_df,
                 pc, req, rpc, listing, data_frames>>

NextIngest == Ingest

SpecIngest == InitIngest /\ [][NextIngest]_vars

-----------------------------------------------------------------------------
(* Floating point values *)

NaN == <<0, 0>>
Inf == <<1, 0>>
NegInf == <<-1, 0>>

Abs(n) == IF n < 0 THEN -n ELSE n

RECURSIVE GCD(_, _)
GCD(m, n) == IF n = 0 THEN m ELSE GCD(n, m % n)

\* the fraction n/d, d # 0, in lowest terms with a positive denominator
Frac(n, d) ==
  LET g == GCD(Abs(n), Abs(d))
      sgn == IF d < 0 THEN -1 ELSE 1
  IN  <<(sgn * n) \div g, (sgn * d) \div g>>

IsFinite(x) == x[2] > 0

\* x / y, y being finite or NaN and x finite or NaN (IEEE 754 division)
FDiv(x, y) ==
  IF x = NaN \/ y = NaN THEN NaN
  ELSE IF y[1] = 0
       THEN (IF x[1] = 0 THEN NaN ELSE IF x[1] > 0 THEN Inf ELSE NegInf)
       ELSE Frac(x[1] * y[2], x[2] * y[1])

\* x * k for an integer k > 0
FTimes(x, k) == IF IsFinite(x) THEN Frac(x[1] * k, x[2]) ELSE x

\* x < k for an integer k; every comparison with NaN is false
FLess(x, k) ==
  IF IsFinite(x) THEN x[1] < k * x[2] ELSE x = NegInf

\* Series.fillna(0)
fillna0(x) == IF x = NaN THEN <<0, 1>> ELSE x

-----------------------------------------------------------------------------
(* compute_metrics *)

GapMinutes == 120

Max(S) == CHOOSE x \in S : \A y \in S : y <= x
Min(S) == CHOOSE x \in S : \A y \in S : x <= y

\* diff() without the groupby: the previous row of the table
PrevInGroup_ungrouped(df, i) == i - 1

\* groupby('Peer ID'): the position of the previous row of the same
\* identifier, 0 when there is none
PrevInGroup(df, i) ==
  LET js == {j \in 1..(i - 1) : df[j].Peer_ID = df[i].Peer_ID}
  IN  IF js = {} THEN 0 ELSE Max(js)

\* line 26: groupby('Peer ID')['Date'].diff().dt.total_seconds() / 60
Time_Diff_Minutes(df, i) ==
  LET prev == PrevInGroup(df, i)
  IN  IF prev = 0 THEN NaN ELSE Frac(df[i].Date - df[prev].Date, 60)

\* line 27: groupby('Peer ID')['Balance'].diff()
Balance_Diff(df, i) ==
  LET prev == PrevInGroup(df, i)
  IN  IF prev = 0 THEN NaN ELSE <<df[i].Balance - df[prev].Balance, 1>>

\* lines 27-28
Quil_Per_Minute(df, i) ==
  fillna0(FDiv(Balance_Diff(df, i), Time_Diff_Minutes(df, i)))

\* line 31 with <= for <
KeepRow_inclusive(time_diff) ==
  FLess(time_diff, GapMinutes) \/ time_diff = <<GapMinutes, 1>>

\* line 31: the rows kept
KeepRow(time_diff) == FLess(time_diff, GapMinutes)

\* line 37: dt.floor('h')
HourOf(date) == (date \div 3600) * 3600

\* the row i of df with the columns of lines 26-37
MetricsRow(df, i) ==
  LET rate == Quil_Per_Minute(df, i)
  IN  [idx |-> df[i].idx, Date |-> df[i].Date,
       Peer_ID |-> df[i].Peer_ID, Balance |-> df[i].Balance,
       Hostname |-> df[i].Hostname,
       Time_Diff_Minutes |-> Time_Diff_Minutes(df, i),
       Quil_Per_Minute |-> rate,
       Quil_Per_Hour |-> FTimes(rate, 60),
       Hour |-> HourOf(df[i].Date)]

\* lines 26-37: the table returned
MetricsTable(df) ==
  SelectSeq([i \in 1..Len(df) |-> MetricsRow(df, i)],
            LAMBDA r : KeepRow(r.Time_Diff_Minutes))

\* the rows of one identifier, and of one of its hours, in table order
RowsOf(df, p) == SelectSeq(df, LAMBDA r : r.Peer_ID = p)
RowsOfHour(df, p, h) == SelectSeq(df, LAMBDA r : r.Peer_ID = p /\ r.Hour = h)

\* a set of integers as an ascending sequence
RECURSIVE Ascending(_)
Ascending(S) == IF S = {} THEN <<>>
                ELSE <<Min(S)>> \o Ascending(S \ {Min(S)})

Last(seq) == seq[Len(seq)]

\* line 38 for one identifier: the last balance of each of its hours
HourlyLast(df, p) ==
  LET rows == RowsOf(df, p)
      hours == Ascending({rows[i].Hour : i \in 1..Len(rows)})
  IN  [k \in 1..Len(hours) |->
         [Peer_ID |-> p, Hour |-> hours[k],
          Balance |-> Last(RowsOfHour(df, p, hours[k])).Balance]]

\* line 39: groupby('Peer ID')['Balance'].diff().fillna(0)
Growth(buckets, k) ==
  IF k = 1 THEN 0 ELSE buckets[k].Balance - buckets[k - 1].Balance

\* lines 38-42 for one identifier
HourlyOf(df, p) ==
  LET buckets == HourlyLast(df, p)
  IN  [k \in 1..Len(buckets) |->
         [Peer_ID |-> p, Hour |-> buckets[k].Hour,
          Balance |-> buckets[k].Balance,
          Growth |-> Growth(buckets, k),
          Quil_Per_Hour |-> Growth(buckets, k)]]

\* lines 38-42 with the diff of line 39 taken over the whole rollup
RECURSIVE AllBuckets(_, _)
AllBuckets(df, peers) ==
  IF peers = <<>> THEN <<>>
  ELSE HourlyLast(df, Head(peers)) \o AllBuckets(df, Tail(peers))
HourlyGrowth_ungrouped(df, peers) ==
  LET buckets == AllBuckets(df, peers)
  IN  [k \in 1..Len(buckets) |->
         [Peer_ID |-> buckets[k].Peer_ID, Hour |-> buckets[k].Hour,
          Balance |-> buckets[k].Balance,
          Growth |-> Growth(buckets, k),
          Quil_Per_Hour |-> Growth(buckets, k)]]

\* lines 38-42: the groups in the order of their keys
RECURSIVE HourlyGrowth(_, _)
HourlyGrowth(df, peers) ==
  IF peers = <<>> THEN <<>>
  ELSE HourlyOf(df, Head(peers)) \o HourlyGrowth(df, Tail(peers))

compute_metrics(df) ==
  LET table == MetricsTable(df)
  IN  [df |-> table, hourly_growth |-> HourlyGrowth(table, PeerOrder)]

-----------------------------------------------------------------------------
(* index *)

\* what is left of a line cut in the middle by a write over it
Fragment == <<>>
FragmentRow == [idx |-> 0, Date |-> "", Peer_ID |-> "", Balance |-> 0,
                Hostname |-> ""]

\* line 84
EndsWithCsv(name) == \E p \in Peers : name = log_file(p)

\* lines 87-89 raise: read_csv on a file without a line (EmptyDataError), or
\* df['Balance'] on a file whose first line does not name that column (KeyError)
ReadRaises(content) ==
  \/ content = <<>>
  \/ ~\E c \in 1..Len(content[1]) : content[1][c] = "Balance"

\* line 87: the rows under the header line, labelled 0, 1, ...
read_csv(content) ==
  [i \in 1..(Len(content) - 1) |->
     IF content[i + 1] = Fragment THEN FragmentRow
     ELSE [idx |-> i - 1, Date |-> content[i + 1][1],
           Peer_ID |-> content[i + 1][2],
           Balance |-> ParseBalance(content[i + 1][3]),
           Hostname |-> content[i + 1][4]]]

SeqRange(seq) == {seq[i] : i \in 1..Len(seq)}

\* line 97 raises: a Date cell that is no timestamp
DateRaises(rows) == \E r \in rows : r.Date \notin Timestamps

\* line 97
WithDates(rows) ==
  {[idx |-> r.idx, Date |-> to_datetime(r.Date), Peer_ID |-> r.Peer_ID,
    Balance |-> r.Balance, Hostname |-> r.Hostname] : r \in rows}

\* line 98: sort_values('Date') with the default, unstable, quicksort over the
\* rows concatenated in os.listdir order: any order ascending in Date
RECURSIVE SortedByDate(_)
SortedByDate(rows) ==
  IF rows = {} THEN {<<>>}
  ELSE LET m == Min({r.Date : r \in rows})
       IN  UNION {{<<x>> \o rest : rest \in SortedByDate(rows \ {x})} :
                  x \in {r \in rows : r.Date = m}}

\* lines 104-108: the last row of every identifier of the table
RECURSIVE LatestBalances(_, _)
LatestBalances(df, peers) ==
  IF peers = <<>> THEN <<>>
  ELSE (IF RowsOf(df, Head(peers)) = <<>> THEN <<>>
        ELSE <<Last(RowsOf(df, Head(peers)))>>)
       \o LatestBalances(df, Tail(peers))

table_data(df) ==
  LET latest_balances == LatestBalances(df, PeerOrder)
  IN  [k \in 1..Len(latest_balances) |->
         [index |-> k - 1,
          Hostname |-> latest_balances[k].Hostname,
          Balance |-> latest_balances[k].Balance,
          Quil_Per_Minute |-> latest_balances[k].Quil_Per_Minute,
          Quil_Per_Hour |-> latest_balances[k].Quil_Per_Hour]]

Page(table, graph) ==
  [route |-> "/", status |-> 200, body |-> "index.html", table_data |-> table,
   balance_graph_html |-> graph, quil_minute_graph_html |-> graph]

\* no table is computed
NoTables ==
  /\ sorted_df' = <<>>
  /\ combined_df' = <<>>
  /\ hourly_growth_df' = <<>>

\* an exception nothing in index catches: the request fails
Fault ==
  /\ response' = Resp("/", 500, "Internal Server Error")
  /\ NoTables

\* lines 95-129, given the rows of the frames read
Render(frames_read, rows) ==
  IF frames_read = 0
  THEN /\ response' = Page(<<>>, "")
       /\ NoTables
  ELSE IF DateRaises(rows) THEN Fault
  ELSE \E sorted \in SortedByDate(WithDates(rows)) :
         LET metrics == compute_metrics(sorted)
         IN  /\ sorted_df' = sorted
             /\ combined_df' = metrics.df
             /\ hourly_growth_df' = metrics.hourly_growth
             /\ response' = Page(table_data(metrics.df), "<div>")

\* the whole handler, run without interruption
index ==
  IF dir # "present" THEN Fault      \* os.listdir raises
  ELSE LET names == {f \in DOMAIN fs : EndsWithCsv(f)}
       IN  IF \E f \in names : ReadRaises(fs[f]) THEN Fault
           ELSE Render(Cardinality(names),
                       UNION {SeqRange(read_csv(fs[f])) : f \in names})

-----------------------------------------------------------------------------
(* Sequential ingestion and reports *)

RECURSIVE SumOver(_, _)
SumOver(files, names) ==
  IF names = {} THEN 0
  ELSE LET f == CHOOSE x \in names : TRUE
       IN  Len(files[f]) + SumOver(files, names \ {f})

\* the lines of the directory's files that are no header line
TotalRows(files) ==
  SumOver(files, DOMAIN files)
    - Cardinality({f \in DOMAIN files : files[f] # <<>> /\ files[f][1] = HEADER})

InitReport == InitIngest

Store ==
  /\ TotalRows(fs) < MaxCalls
  /\ \E p \in Peers, b \in Balances, t \in Timestamps, h \in Hostnames :
       update_balance(Body(Fields, p, b, t, h))
  /\ NoTables
  /\ UNCHANGED <<dir, history, last_call, pc, req, rpc, listing, data_frames>>

View ==
  /\ index
  /\ UNCHANGED <<dir, fs, history, last_call, pc, req, rpc, listing, data_frames>>

NextReport == Store \/ View

SpecReport == InitReport /\ [][NextReport]_vars

-----------------------------------------------------------------------------
(* compute_metrics and the latest-state table on every sorted table *)

\* the tables index can hand to compute_metrics: up to MaxRows records,
\* ascending in date, each labelled with its position in its identifier's log
AscendingDates(n) ==
  {d \in [1..n -> Times] : \A i \in 1..(n - 1) : d[i] <= d[i + 1]}

AsRows(d, r) ==
  [i \in 1..Len(d) |->
     [idx |-> Cardinality({j \in 1..(i - 1) : r[j][1] = r[i][1]}),
      Date |-> d[i], Peer_ID |-> r[i][1], Balance |-> r[i][2],
      Hostname |-> r[i][3]]]

InitMetrics ==
  /\ dir = "present"
  /\ fs = NoFiles
  /\ history = <<>>
  /\ last_call = NoCall
  /\ response = NoResponse
  /\ \E n \in 0..MaxRows :
       \E d \in AscendingDates(n),
          r \in [1..n -> Peers \X Balances \X Hostnames] :
         sorted_df = AsRows(d, r)
  /\ combined_df = <<>>
  /\ hourly_growth_df = <<>>
  /\ ConcIdle

\* lines 101-108 on the sorted table
Derive ==
  /\ response.status = 0
  /\ LET metrics == compute_metrics(sorted_df)
     IN  /\ combined_df' = metrics.df
         /\ hourly_growth_df' = metrics.hourly_growth
         /\ response' = Page(table_data(metrics.df), "<div>")
  /\ UNCHANGED <<dir, fs, history, last_call, sorted_df,
                 pc, req, rpc, listing, data_frames>>

NextMetrics == Derive

SpecMetrics == InitMetrics /\ [][NextMetrics]_vars

-----------------------------------------------------------------------------
(* Concurrent requests: update_balance and index, one line at a time *)

InitConc == InitIngest

\* lines 50-61: the body arrives and is validated
Receive(w) ==
  /\ pc[w] = "idle"
  /\ Len(history) < MaxConcCalls
  /\ \E S \in SUBSET Fields, p \in Peers, b \in ConcBalances,
        t \in {DateText(s) : s \in ConcTimes}, h \in Hostnames :
       LET data == Body(S, p, b, t, h)
       IN  IF ~valid_data(data)
           THEN /\ response' = Resp("/update_balance", 400, "Invalid data")
                /\ UNCHANGED <<pc, req, history>>
           ELSE IF ~(Fields \subseteq DOMAIN data)
           THEN /\ response' = Resp("/update_balance", 500,
                                   "Internal Server Error")
                /\ UNCHANGED <<pc, req, history>>
           ELSE /\ req' = [req EXCEPT ![w] = data]
                /\ pc' = [pc EXCEPT ![w] = "exists"]
                /\ history' = Append(history, data)
                /\ UNCHANGED response
  /\ UNCHANGED <<dir, fs, last_call, sorted_df, combined_df, hourly_growth_df,
                 rpc, listing, data_frames>>

\* line 63; without the directory the test is false and open() raises
Exists(w) ==
  /\ pc[w] = "exists"
  /\ IF dir # "present"
     THEN /\ pc' = [pc EXCEPT ![w] = "idle"]
          /\ response' = Resp("/update_balance", 500, "Internal Server Error")
     ELSE /\ pc' = [pc EXCEPT ![w] =
                      IF path_exists(fs, log_file(req[w]["peer_id"]))
                      THEN "append" ELSE "open_w"]
          /\ UNCHANGED response
  /\ UNCHANGED <<dir, fs, history, last_call, sorted_df, combined_df,
                 hourly_growth_df, req, rpc, listing, data_frames>>

\* line 64
Create(w) ==
  /\ pc[w] = "open_w"
  /\ fs' = OpenW(fs, log_file(req[w]["peer_id"]))
  /\ pc' = [pc EXCEPT ![w] = "write_header"]
  /\ UNCHANGED <<dir, history, last_call, response, sorted_df, combined_df,
                 hourly_growth_df, req, rpc, listing, data_frames>>

\* line 65, written to the file when the with block closes it
WriteHeader(w) ==
  /\ pc[w] = "write_header"
  /\ fs' = WriteAtStart(fs, log_file(req[w]["peer_id"]), HEADER)
  /\ pc' = [pc EXCEPT ![w] = "append"]
  /\ UNCHANGED <<dir, history, last_call, response, sorted_df, combined_df,
                 hourly_growth_df, req, rpc, listing, data_frames>>

\* lines 67-71
AppendRow(w) ==
  /\ pc[w] = "append"
  /\ fs' = AppendLine(fs, log_file(req[w]["peer_id"]),
                      RowLine(req[w]["timestamp"], req[w]["peer_id"],
                              req[w]["balance"], req[w]["hostname"]))
  /\ pc' = [pc EXCEPT ![w] = "idle"]
  /\ response' = Resp("/update_balance", 200, "Balance updated")
  /\ UNCHANGED <<dir, history, last_call, sorted_df, combined_df,
                 hourly_growth_df, req, rpc, listing, data_frames>>

\* line 83
ListDir ==
  /\ rpc = "idle"
  /\ IF dir # "present"
     THEN Fault /\ UNCHANGED <<rpc, listing>>
     ELSE /\ listing' = {f \in DOMAIN fs : EndsWithCsv(f)}
          /\ rpc' = "read"
          /\ UNCHANGED <<response, sorted_df, combined_df, hourly_growth_df>>
  /\ UNCHANGED <<dir, fs, history, last_call, pc, req, data_frames>>

\* the rows of a frame that are no fragment
WholeRows(frame) == SelectSeq(frame, LAMBDA r : r # FragmentRow)

\* lines 84-92 for one file.  A fragment is read as a row whose Date is no
\* timestamp or, being an empty line, is skipped.
ReadFile ==
  /\ rpc = "read"
  /\ \E f \in listing :
       IF ReadRaises(fs[f])
       THEN /\ Fault
            /\ rpc' = "idle"
            /\ listing' = {}
            /\ data_frames' = <<>>
       ELSE /\ \E frame \in {read_csv(fs[f]), WholeRows(read_csv(fs[f]))} :
                 data_frames' = Append(data_frames, frame)
            /\ listing' = listing \ {f}
            /\ UNCHANGED <<rpc, response, sorted_df, combined_df,
                           hourly_growth_df>>
  /\ UNCHANGED <<dir, fs, history, last_call, pc, req>>

\* lines 95-129
Finish ==
  /\ rpc = "read"
  /\ listing = {}
  /\ Render(Len(data_frames),
            UNION {SeqRange(data_frames[k]) : k \in 1..Len(data_frames)})
  /\ rpc' = "idle"
  /\ data_frames' = <<>>
  /\ UNCHANGED <<dir, fs, history, last_call, pc, req, listing>>

NextConc ==
  \/ \E w \in Workers :
       Receive(w) \/ Exists(w) \/ Create(w) \/ WriteHeader(w) \/ AppendRow(w)
  \/ ListDir
  \/ ReadFile
  \/ Finish

SpecConc == InitConc /\ [][NextConc]_vars

-----------------------------------------------------------------------------
(* Concurrent ingestion calls, each as the steps existence check, creation *)
(* with the header, append                                                 *)

\* lines 64-65 in one step
CreateWithHeader(w) ==
  /\ pc[w] = "open_w"
  /\ fs' = WriteAtStart(OpenW(fs, log_file(req[w]["peer_id"])),
                        log_file(req[w]["peer_id"]), HEADER)
  /\ pc' = [pc EXCEPT ![w] = "append"]
  /\ UNCHANGED <<dir, history, last_call, response, sorted_df, combined_df,
                 hourly_growth_df, req, rpc, listing, data_frames>>

NextLogs ==
  \E w \in Workers :
    Receive(w) \/ Exists(w) \/ CreateWithHeader(w) \/ AppendRow(w)

SpecLogs == InitConc /\ [][NextLogs]_vars

-----------------------------------------------------------------------------
(* Claims on ingestion *)

CallsOf(p) == SelectSeq(history, LAMBDA d : d["peer_id"] = p)

ExpectedLog(p) ==
  <<HEADER>> \o [i \in 1..Len(CallsOf(p)) |->
                  <<CallsOf(p)[i]["timestamp"], p,
                    NumText(CallsOf(p)[i]["balance"]),
                    CallsOf(p)[i]["hostname"]>>]

\* C1: after any sequence of non-overlapping valid ingestion calls into an
\* existing storage directory, the log files are exactly those of the
\* identifiers reported, and each log is the header line once, first, followed
\* by one row timestamp,identifier,balance,origin-label per call for that
\* identifier, in call order; nothing else in the directory changes.
C1_OneRowPerCall ==
  dir = "present" =>
    /\ \A p \in Peers :
         IF CallsOf(p) = <<>> THEN log_file(p) \notin DOMAIN fs
         ELSE /\ log_file(p) \in DOMAIN fs
              /\ fs[log_file(p)] = ExpectedLog(p)
    /\ DOMAIN fs \subseteq {log_file(p) : p \in Peers} \cup {OtherFile}
    /\ OtherFile \in DOMAIN fs => fs[OtherFile] = <<>>

\* a log with two rows and another log with one
C1_Witness ==
  /\ dir = "present"
  /\ Len(history) = 3
  /\ \E p, q \in Peers :
       /\ p # q
       /\ Len(CallsOf(p)) = 2
       /\ Len(CallsOf(q)) = 1
       /\ Len(fs[log_file(p)]) = 3

\* C2: a call whose body lacks any of the four fields is answered 400 and
\* leaves every file of the storage directory as it was.
C2_InvalidRejected ==
  (response.status # 0 /\ ~last_call.complete)
    => (response.status = 400 /\ fs = last_call.before)

\* a call was rejected while a log held a data row
C2_Witness ==
  /\ response.status = 400
  /\ \E p \in Peers : log_file(p) \in DOMAIN fs /\ Len(fs[log_file(p)]) >= 2

-----------------------------------------------------------------------------
(* Claims on the logs under concurrent ingestion *)

IsPrefix(s, t) == Len(s) <= Len(t) /\ \A i \in 1..Len(s) : s[i] = t[i]

RowsIn(content) == SelectSeq(content, LAMBDA line : line # HEADER)

\* C3: logs are append-only under every interleaving of ingestion calls: in
\* every step, every log still exists and the data rows it held are still its
\* first data rows, unchanged.
C3_AppendOnly ==
  [][\A f \in DOMAIN fs :
       /\ f \in DOMAIN fs'
       /\ IsPrefix(RowsIn(fs[f]), RowsIn(fs'[f]))]_vars

\* C10: a report request that runs while ingestion calls write into the
\* storage directory never faults.
C10_ReportNeverFaults ==
  (dir = "present" /\ response.route = "/") => response.status = 200

-----------------------------------------------------------------------------
(* Claims on the report *)

IsPage == response.route = "/" /\ response.status = 200

LoggedPeers ==
  {p \in Peers : log_file(p) \in DOMAIN fs /\ RowsIn(fs[log_file(p)]) # <<>>}

\* C4: the latest-state table of a report has exactly one row per identifier
\* that has at least one record in the logs.
C4_OneRowPerIdentifier ==
  (response.route = "/" /\ dir = "present")
    => (IsPage /\ Len(response.table_data) = Cardinality(LoggedPeers))

\* C5: without a readable storage directory, or without a log file in it, the
\* report is a normal page with an empty table and empty chart placeholders.
C5_EmptyStateIsAPage ==
  (response.route = "/" /\ (dir # "present" \/ LoggedPeers = {}))
    => /\ IsPage
       /\ response.table_data = <<>>
       /\ response.balance_graph_html = ""
       /\ response.quil_minute_graph_html = ""

-----------------------------------------------------------------------------
(* Claims on compute_metrics *)

Derived == IsPage /\ sorted_df # <<>>

\* the rows of the same identifier before row i of the sorted table
EarlierOfPeer(i) ==
  {j \in 1..(i - 1) : sorted_df[j].Peer_ID = sorted_df[i].Peer_ID}

HasPredecessor(i) == EarlierOfPeer(i) # {}

\* the same-identifier predecessor of row i in timestamp order
Predecessor(i) ==
  CHOOSE j \in EarlierOfPeer(i) : \A k \in EarlierOfPeer(i) : k <= j

ElapsedSeconds(i) == sorted_df[i].Date - sorted_df[Predecessor(i)].Date

BalanceDelta(i) == sorted_df[i].Balance - sorted_df[Predecessor(i)].Balance

\* where row i of the sorted table is in the table returned
PlacesOf(i) ==
  {k \in 1..Len(combined_df) :
     /\ combined_df[k].idx = sorted_df[i].idx
     /\ combined_df[k].Peer_ID = sorted_df[i].Peer_ID}

Retained(i) == PlacesOf(i) # {}

Returned(i) == combined_df[CHOOSE k \in PlacesOf(i) : TRUE]

\* C6: a record with a same-identifier predecessor is in the table returned
\* if and only if its elapsed minutes since that predecessor are strictly less
\* than 120; the table returned holds rows of the sorted table only, and the
\* hourly rollup and the latest-state table are taken from its rows.
C6_GapExclusion ==
  Derived =>
    /\ \A i \in 1..Len(sorted_df) :
         HasPredecessor(i) => (Retained(i) <=> ElapsedSeconds(i) < 120 * 60)
    /\ \A k \in 1..Len(combined_df) :
         \E i \in 1..Len(sorted_df) :
           /\ k \in PlacesOf(i)
           /\ combined_df[k].Date = sorted_df[i].Date
           /\ combined_df[k].Balance = sorted_df[i].Balance
    /\ \A k \in 1..Len(hourly_growth_df) :
         \E j \in 1..Len(combined_df) :
           /\ combined_df[j].Peer_ID = hourly_growth_df[k].Peer_ID
           /\ (combined_df[j].Date \div 3600) * 3600 = hourly_growth_df[k].Hour
           /\ combined_df[j].Balance = hourly_growth_df[k].Balance
    /\ \A k \in 1..Len(response.table_data) :
         \E j \in 1..Len(combined_df) :
           /\ combined_df[j].Hostname = response.table_data[k].Hostname
           /\ combined_df[j].Balance = response.table_data[k].Balance
           /\ combined_df[j].Quil_Per_Minute
                = response.table_data[k].Quil_Per_Minute

\* one record exactly 120 minutes after its predecessor, dropped, and one
\* less than 120 minutes after its predecessor, kept
C6_Witness ==
  /\ Derived
  /\ \E i \in 1..Len(sorted_df) :
       HasPredecessor(i) /\ ElapsedSeconds(i) = 120 * 60 /\ ~Retained(i)
  /\ \E i \in 1..Len(sorted_df) :
       HasPredecessor(i) /\ ElapsedSeconds(i) < 120 * 60 /\ Retained(i)

\* the hours in which identifier p has a row of the table returned
HoursOf(p) ==
  {(combined_df[k].Date \div 3600) * 3600 :
     k \in {j \in 1..Len(combined_df) : combined_df[j].Peer_ID = p}}

\* the balance of the last row of identifier p in hour h
LastBalance(p, h) ==
  LET ks == {k \in 1..Len(combined_df) :
               /\ combined_df[k].Peer_ID = p
               /\ (combined_df[k].Date \div 3600) * 3600 = h}
  IN  combined_df[CHOOSE k \in ks : \A j \in ks : j <= k].Balance

BucketsOf(p) ==
  {k \in 1..Len(hourly_growth_df) : hourly_growth_df[k].Peer_ID = p}

\* C7: the hourly rollup has one entry per identifier and hour of the table
\* returned, holding the last balance of that hour; the growth of an
\* identifier's earliest hour is 0, and the growth of a later hour is its last
\* balance minus the last balance of the same identifier's previous hour.
C7_HourlyGrowth ==
  Derived =>
    \A p \in Peers :
      /\ {hourly_growth_df[k].Hour : k \in BucketsOf(p)} = HoursOf(p)
      /\ Cardinality(BucketsOf(p)) = Cardinality(HoursOf(p))
      /\ \A k \in BucketsOf(p) :
           LET h == hourly_growth_df[k].Hour
               before == {g \in HoursOf(p) : g < h}
           IN  /\ hourly_growth_df[k].Balance = LastBalance(p, h)
               /\ hourly_growth_df[k].Growth =
                    IF before = {} THEN 0
                    ELSE LastBalance(p, h)
                         - LastBalance(p, CHOOSE g \in before :
                                            \A x \in before : x <= g)

\* an identifier with two hours, the later one with a growth other than 0,
\* and a first hour of growth 0 under a balance other than 0
C7_Witness ==
  /\ Derived
  /\ \E k \in 1..Len(hourly_growth_df) : hourly_growth_df[k].Growth # 0
  /\ \E k \in 1..Len(hourly_growth_df) :
       hourly_growth_df[k].Growth = 0 /\ hourly_growth_df[k].Balance # 0

\* C8: for every retained record with a same-identifier predecessor and
\* elapsed minutes e > 0, the per-minute rate is (balance - predecessor's
\* balance) / e and the hourly rate is that rate times 60; balances 10 then
\* 15 ten minutes apart give 0.5 and 30.
C8_Rate ==
  Derived =>
    \A i \in 1..Len(sorted_df) :
      (HasPredecessor(i) /\ ElapsedSeconds(i) > 0 /\ Retained(i)) =>
        LET rate == Returned(i).Quil_Per_Minute
            hourly == Returned(i).Quil_Per_Hour
        IN  /\ rate[2] > 0
            /\ rate[1] * ElapsedSeconds(i) = BalanceDelta(i) * 60 * rate[2]
            /\ hourly[2] > 0
            /\ hourly[1] * rate[2] = 60 * rate[1] * hourly[2]
            /\ (BalanceDelta(i) = 5 /\ ElapsedSeconds(i) = 600)
                 => (rate = <<1, 2>> /\ hourly = <<30, 1>>)

\* balances 10 then 15 ten minutes apart, a record of another identifier
\* between the two in the sorted table
C8_Witness ==
  /\ Derived
  /\ \E i \in 1..Len(sorted_df) :
       /\ HasPredecessor(i)
       /\ Predecessor(i) < i - 1
       /\ sorted_df[Predecessor(i)].Balance = 10
       /\ sorted_df[i].Balance = 15
       /\ ElapsedSeconds(i) = 600
       /\ Retained(i)
       /\ Returned(i).Quil_Per_Minute = <<1, 2>>
       /\ Returned(i).Quil_Per_Hour = <<30, 1>>

\* C9: every record of the table returned has a finite per-minute rate, and
\* the rate is 0 when the elapsed minutes to the predecessor are 0.
C9_FiniteRate ==
  Derived =>
    \A k \in 1..Len(combined_df) :
      /\ combined_df[k].Quil_Per_Minute[2] > 0
      /\ combined_df[k].Time_Diff_Minutes = <<0, 1>>
           => combined_df[k].Quil_Per_Minute = <<0, 1>>

=============================================================================
